---- MODULE Spec2Model ----
(***************************************************************************)
(* Model of src/data_prep.py: the MedleyDB patch-extraction pipeline.      *)
(*                                                                         *)
(* Strings (track names, file names, column names, instrument names) are   *)
(* sequences of one-character strings, ordered by their ASCII codes.       *)
(* Confidence values and their means are exact fractions <<num, den>>;     *)
(* the mean of no rows is 0/0, the model's NaN.                            *)
(* A sample matrix is described by its shape [n] (2 x n) and dtype; a      *)
(* patch's samples are described by the column slice taken from each       *)
(* channel row, in ravel order.                                            *)
(***************************************************************************)
EXTENDS Integers, Sequences, FiniteSets, TLC

\* ------------------------------------------------------------------ bounds
MaxWindows == 2      \* track lengths range over 0 .. MaxWindows full windows
MaxConf == 2         \* confidence values range over 0 .. MaxConf
MaxRuns == 2         \* prep_data is started at most MaxRuns times

\* ------------------------------------------------------- program constants
SampleRate == 44100  \* data_prep.py:177
length == 5          \* data_prep.py:159, the default patch length in seconds
SuffixLen == 20      \* data_prep.py:105
PatchSize(len) == SampleRate * len   \* patch_size = 44100 * length
patch_size == PatchSize(length)

\* ----------------------------------------------------------------- strings
Ord(c) ==
    CASE c = "'" -> 39 [] c = "(" -> 40 [] c = "-" -> 45 [] c = "0" -> 48
      [] c = "1" -> 49 [] c = "2" -> 50 [] c = "B" -> 66 [] c = "S" -> 83
      [] c = "a" -> 97 [] c = "b" -> 98 [] c = "c" -> 99 [] c = "e" -> 101
      [] c = "i" -> 105 [] c = "m" -> 109 [] c = "t" -> 116

\* Python's str comparison: lexicographic by character code.
RECURSIVE StrLess(_, _)
StrLess(s, t) ==
    IF Len(t) = 0 THEN FALSE
    ELSE IF Len(s) = 0 THEN TRUE
    ELSE IF Ord(Head(s)) # Ord(Head(t)) THEN Ord(Head(s)) < Ord(Head(t))
    ELSE StrLess(Tail(s), Tail(t))

\* sorted(...) of a collection of distinct strings.
RECURSIVE Sorted(_)
Sorted(S) ==
    IF S = {} THEN <<>>
    ELSE LET m == CHOOSE x \in S : \A y \in S \ {x} : StrLess(x, y)
         IN  <<m>> \o Sorted(S \ {m})

Range(f) == {f[x] : x \in DOMAIN f}
Min(a, b) == IF a < b THEN a ELSE b
Max(a, b) == IF a > b THEN a ELSE b

\* ---------------------------------------------------------------- fractions
RECURSIVE Gcd(_, _)
Gcd(a, b) == IF b = 0 THEN a ELSE Gcd(b, a % b)

NaN == <<0, 0>>
Zero == <<0, 1>>
IsNaN(q) == q[2] = 0
Frac(n, d) == IF d = 0 THEN NaN ELSE LET g == Gcd(n, d) IN <<n \div g, d \div g>>
FracLess(p, q) == p[1] * q[2] < q[1] * p[2]

RECURSIVE SumSeq(_)
SumSeq(s) == IF Len(s) = 0 THEN 0 ELSE Head(s) + SumSeq(Tail(s))

\* pandas mean of one column: NaN when there is no row.
Mean(vals) == Frac(SumSeq(vals), Len(vals))

\* pandas Series.max(): NaN entries are skipped, all-NaN gives NaN.
SeriesMax(qs) ==
    LET real == {j \in DOMAIN qs : ~IsNaN(qs[j])}
    IN  IF real = {} THEN NaN
        ELSE qs[CHOOSE j \in real : \A h \in real : ~FracLess(qs[j], qs[h])]

\* ------------------------------------------------------------ file formats
TIME == <<"t", "i", "m", "e">>
Suffix == <<"_", "A", "C", "T", "I", "V", "A", "T", "I", "O", "N", "_", "C", "O", "N", "F", ".", "l", "a", "b">>

\* i[:-20]
DropSuffix(i) == SubSeq(i, 1, Max(Len(i) - SuffixLen, 0))

\* s.split('(')[0]
RECURSIVE BeforeParen(_)
BeforeParen(s) ==
    IF Len(s) = 0 \/ Head(s) = "(" THEN <<>>
    ELSE <<Head(s)>> \o BeforeParen(Tail(s))

\* s.translate(None, "'-")
Translate(s) ==
    LET Keep(c) == c \notin {"'", "-"}
    IN  SelectSeq(s, Keep)

\* The dictionary key read_activation_confs derives from a file name.
AnnotationKey(i) == Translate(BeforeParen(DropSuffix(i)))

\* read_activation_confs: the dictionaries it can return for a directory
\* (file name -> table).  Two files with one key overwrite each other in
\* os.listdir order, which is arbitrary.
ReadActivationConfs(dir) ==
    LET keys == {AnnotationKey(i) : i \in DOMAIN dir}
    IN  {res \in [keys -> Range(dir)] :
            \A k \in keys : \E i \in DOMAIN dir : AnnotationKey(i) = k /\ res[k] = dir[i]}

\* read_meta_data: one instrument map (stem id -> instrument) per Audio entry.
ReadMetaData(dir) == [i \in DOMAIN dir |-> dir[i].stems]

\* DataFrame.rename(columns=m, inplace=True)
Rename(tab, m) ==
    [tab EXCEPT !.columns =
        [j \in DOMAIN @ |-> IF @[j] \in DOMAIN m THEN m[@[j]] ELSE @[j]]]

\* Mutant: a track without metadata is passed over (meta.get(k, {})).
RECURSIVE MatchLoopSkip(_, _, _)
MatchLoopSkip(m, order, acc) ==
    IF Len(order) = 0 \/ acc.err # "none" THEN acc
    ELSE LET k == Head(order)
         IN  IF k \notin DOMAIN m
             THEN MatchLoopSkip(m, Tail(order), acc)
             ELSE MatchLoopSkip(m, Tail(order),
                    [err |-> "none",
                     annotation |-> [acc.annotation EXCEPT ![k] = Rename(@, m[k])],
                     all_instruments |-> acc.all_instruments \cup Range(m[k])])

\* The loop of match_meta_annotation over annotation.items(), in the
\* iteration order `order`; acc is [err, annotation, all_instruments].
RECURSIVE MatchLoop(_, _, _)
MatchLoop(m, order, acc) ==
    IF Len(order) = 0 \/ acc.err # "none" THEN acc
    ELSE LET k == Head(order)
         IN  IF k \notin DOMAIN m
             THEN [acc EXCEPT !.err = "KeyError"]
             ELSE MatchLoop(m, Tail(order),
                    [err |-> "none",
                     annotation |-> [acc.annotation EXCEPT ![k] = Rename(@, m[k])],
                     all_instruments |-> acc.all_instruments \cup Range(m[k])])

\* Mutant: the vocabulary is returned without sorted(), in another order.
MatchMetaAnnotationUnsorted(m, anno, order) ==
    IF Cardinality(DOMAIN m) # Cardinality(DOMAIN anno)
    THEN [err |-> "AssertionError", annotation |-> anno, all_instruments |-> <<>>]
    ELSE LET r == MatchLoop(m, order,
                    [err |-> "none", annotation |-> anno, all_instruments |-> {}])
             up == Sorted(r.all_instruments)
         IN  [err |-> r.err, annotation |-> r.annotation,
              all_instruments |-> IF r.err = "none"
                                  THEN [j \in DOMAIN up |-> up[Len(up) + 1 - j]] ELSE <<>>]

MatchMetaAnnotation(m, anno, order) ==
    IF Cardinality(DOMAIN m) # Cardinality(DOMAIN anno)
    THEN [err |-> "AssertionError", annotation |-> anno, all_instruments |-> <<>>]
    ELSE LET r == MatchLoop(m, order,
                    [err |-> "none", annotation |-> anno, all_instruments |-> {}])
         IN  [err |-> r.err, annotation |-> r.annotation,
              all_instruments |-> IF r.err = "none" THEN Sorted(r.all_instruments) ELSE <<>>]

\* {e: i for i, e in enumerate(all_instruments)}
InstrumentMap(all) == [e \in Range(all) |-> (CHOOSE j \in DOMAIN all : all[j] = e) - 1]

\* ------------------------------------------------------------------ patches
\* xrange(start, stop, step) for step > 0
XRange(start, stop, step) ==
    LET cnt == IF stop <= start THEN 0 ELSE (stop - start + step - 1) \div step
    IN  [j \in 1..cnt |-> start + (j - 1) * step]

\* v[:, lo:hi].ravel(): the slice of channel 0, then the slice of channel 1;
\* numpy clips a slice to the row length.
Ravel(k, v, lo, hi) ==
    [ch \in 1..2 |-> [track |-> k, channel |-> ch - 1,
                      from |-> Min(lo, v.n), to |-> Min(hi, v.n)]]

TimeCol(tab) == CHOOSE j \in DOMAIN tab.columns : tab.columns[j] = TIME

\* Mutant: the window is closed at its end (time <= hi).
SubDfClosed(tab, lo, hi) ==
    LET t == TimeCol(tab)
        InWindow(row) == lo <= row[t] /\ row[t] <= hi
    IN  [tab EXCEPT !.rows = SelectSeq(@, InWindow)]

\* annotation[k][(lo <= annotation[k].time) & (annotation[k].time < hi)]
SubDf(tab, lo, hi) ==
    LET t == TimeCol(tab)
        InWindow(row) == lo <= row[t] /\ row[t] < hi
    IN  [tab EXCEPT !.rows = SelectSeq(@, InWindow)]

\* sub_df.mean().drop('time'): a Series, one entry per column not named time.
InstConf(sub_df) ==
    LET Named(j) == sub_df.columns[j] # TIME
        keep == SelectSeq([j \in DOMAIN sub_df.columns |-> j], Named)
    IN  [h \in DOMAIN keep |->
            [name |-> sub_df.columns[keep[h]],
             mean |-> Mean([r \in DOMAIN sub_df.rows |-> sub_df.rows[r][keep[h]]])]]

\* Mutant: duplicate columns are averaged (temp.mean()).
RECURSIVE FracSum(_)
FracSum(qs) ==
    IF Len(qs) = 0 THEN Zero
    ELSE LET p == Head(qs)
             q == FracSum(Tail(qs))
         IN  IF IsNaN(p) \/ IsNaN(q) THEN NaN
             ELSE Frac(p[1] * q[2] + q[1] * p[2], p[2] * q[2])
ConfOfMean(inst_conf, j) ==
    LET Same(e) == e.name = j
        hits == SelectSeq(inst_conf, Same)
        sum == FracSum([h \in DOMAIN hits |-> hits[h].mean])
    IN  IF Len(hits) > 1 THEN Frac(sum[1], sum[2] * Len(hits))
        ELSE hits[1].mean

\* inst_conf[j]: a scalar, or the Series of all entries labelled j, whose max
\* is taken.
ConfOf(inst_conf, j) ==
    LET Same(e) == e.name = j
        hits == SelectSeq(inst_conf, Same)
    IN  IF Len(hits) > 1 THEN SeriesMax([h \in DOMAIN hits |-> hits[h].mean])
        ELSE hits[1].mean

\* for j in inst_conf.index: label[inst_map[j]] = ...
RECURSIVE LabelLoop(_, _, _, _)
LabelLoop(inst_conf, inst_map, idx, acc) ==
    IF idx > Len(inst_conf) \/ acc.err # "none" THEN acc
    ELSE LET j == inst_conf[idx].name
         IN  IF j \notin DOMAIN inst_map
             THEN [acc EXCEPT !.err = "KeyError"]
             ELSE LabelLoop(inst_conf, inst_map, idx + 1,
                    [acc EXCEPT !.label[inst_map[j]] = ConfOf(inst_conf, j)])

\* np.zeros(len(inst_map)), then the loop
Label(inst_conf, inst_map) ==
    LabelLoop(inst_conf, inst_map, 1,
        [err |-> "none",
         label |-> [p \in 0..(Cardinality(DOMAIN inst_map) - 1) |-> Zero]])

\* The inner loop of split_music_to_patches for one track, from the window
\* with 1-based position idx of starts; acc is [err, res].
RECURSIVE TrackLoop(_, _, _, _, _, _, _, _)
TrackLoop(k, v, anno, inst_map, len, starts, idx, acc) ==
    IF idx > Len(starts) \/ acc.err # "none" THEN acc
    ELSE IF k \notin DOMAIN anno THEN [acc EXCEPT !.err = "KeyError"]
    ELSE LET i == idx - 1
             e == starts[idx]
             patch == Ravel(k, v, e, PatchSize(len) + e)
             sub_df == SubDf(anno[k], i * len, (i + 1) * len)
             lab == Label(InstConf(sub_df), inst_map)
         IN  IF lab.err # "none" THEN [acc EXCEPT !.err = lab.err]
             ELSE TrackLoop(k, v, anno, inst_map, len, starts, idx + 1,
                    [acc EXCEPT !.res = Append(@, <<patch, lab.label>>)])

\* Mutant: the loop runs to the end of the track, cutting a short last window.
StartsNoDrop(n, len) == XRange(0, n, PatchSize(len))

\* The windows split_music_to_patches takes of a track of n samples.
Starts(n, len) == XRange(0, n - PatchSize(len), PatchSize(len))

\* The outer loop, over data.items() in the iteration order `order`.
RECURSIVE DataLoop(_, _, _, _, _, _)
DataLoop(data, anno, inst_map, len, order, acc) ==
    IF Len(order) = 0 \/ acc.err # "none" THEN acc
    ELSE LET k == Head(order)
         IN  DataLoop(data, anno, inst_map, len, Tail(order),
                TrackLoop(k, data[k], anno, inst_map, len,
                          Starts(data[k].n, len), 1, acc))

\* split_music_to_patches: [err, X, y]; zip(*res) of no patch cannot be
\* unpacked into X, y.
SplitMusicToPatches(data, anno, inst_map, len, order) ==
    LET r == DataLoop(data, anno, inst_map, len, order, [err |-> "none", res |-> <<>>])
    IN  IF r.err # "none" THEN [err |-> r.err, X |-> <<>>, y |-> <<>>]
        ELSE IF Len(r.res) = 0 THEN [err |-> "ValueError", X |-> <<>>, y |-> <<>>]
        ELSE [err |-> "none",
              X |-> [p \in DOMAIN r.res |-> r.res[p][1]],
              y |-> [p \in DOMAIN r.res |-> r.res[p][2]]]

\* -------------------------------------------------------------------- state
VARIABLES
    audioDir,            \* in_path/Audio: entry -> [n: samples of <entry>_MIX.wav, stems: its METADATA]
    annoDir,             \* in_path/.../ACTIVATION_CONF: file name -> table
    fs,                  \* out_path: path -> file, for the paths that exist
    save_size,           \* prep_data's save_size
    start_from,          \* prep_data's start_from
    pc,                  \* position of the running prep_data
    run,                 \* how many times prep_data has been started
    fsAtStart,           \* out_path as the current run found it
    annotation, meta, all_instruments, all_instruments_map, dlist, i,
    data, patched_data,  \* locals of prep_data
    err                  \* the exception that ended the run

vars == <<audioDir, annoDir, fs, save_size, start_from, pc, run, fsAtStart,
          annotation, meta, all_instruments, all_instruments_map, dlist, i,
          data, patched_data, err>>

inputs == <<audioDir, annoDir, save_size, start_from>>

\* An unbound local.
NoData == <<>>
NoPatches == [err |-> "unbound", X |-> <<>>, y |-> <<>>]

\* os.path.join(out_path, 'anno_label.pkl')
AnnoPkl == <<"anno_label", 0, 0>>
\* os.path.join(out_path, 'patch_data_{}_{}.mat'.format(i, i+save_size))
PatchesSavePath(a, b) == <<"patch_data", a, b>>

\* os.path.exists
Exists(path) == path \in DOMAIN fs

\* A file being written holds nothing usable until the writer has finished.
Opened(path) ==
    [q \in DOMAIN fs \cup {path} |->
        IF q = path THEN [by |-> run, complete |-> FALSE, body |-> <<>>] ELSE fs[q]]
Written(path, body) ==
    [fs EXCEPT ![path] = [by |-> run, complete |-> TRUE, body |-> body]]

\* The orders in which a dictionary with key set S can be iterated.
Orders(S) == {o \in [1..Cardinality(S) -> S] : Range(o) = S}

\* dlist[i:i+save_size]
Tdlist(l, from, size) == SubSeq(l, from + 1, Min(from + size, Len(l)))

\* The for loop's next position: "read" while range(...) has a value left.
LoopPc(at, l) == IF at < Len(l) THEN "read" ELSE "done"

\* ------------------------------------------------------------------ actions
\* lines 212-213
ReadInputs ==
    /\ pc = "start"
    /\ annotation' \in ReadActivationConfs(annoDir)
    /\ meta' = ReadMetaData(audioDir)
    /\ pc' = "match"
    /\ UNCHANGED <<inputs, fs, run, fsAtStart, all_instruments, all_instruments_map,
                   dlist, i, data, patched_data, err>>

\* line 214
Match ==
    /\ pc = "match"
    /\ \E order \in Orders(DOMAIN annotation) :
          LET r == MatchMetaAnnotation(meta, annotation, order)
          IN  /\ annotation' = r.annotation
              /\ all_instruments' = r.all_instruments
              /\ err' = r.err
              /\ pc' = IF r.err = "none" THEN "pickle" ELSE "failed"
    /\ UNCHANGED <<inputs, fs, run, fsAtStart, meta, all_instruments_map,
                   dlist, i, data, patched_data>>

\* lines 215-216
PickleOpen ==
    /\ pc = "pickle"
    /\ IF Exists(AnnoPkl)
       THEN /\ pc' = "map"
            /\ fs' = fs
       ELSE /\ pc' = "pickle_dump"
            /\ fs' = Opened(AnnoPkl)
    /\ UNCHANGED <<inputs, run, fsAtStart, annotation, meta, all_instruments,
                   all_instruments_map, dlist, i, data, patched_data, err>>

\* line 217
PickleDump ==
    /\ pc = "pickle_dump"
    /\ fs' = Written(AnnoPkl, <<annotation>>)
    /\ pc' = "map"
    /\ UNCHANGED <<inputs, run, fsAtStart, annotation, meta, all_instruments,
                   all_instruments_map, dlist, i, data, patched_data, err>>

\* lines 220-225
BuildMap ==
    /\ pc = "map"
    /\ all_instruments_map' = InstrumentMap(all_instruments)
    /\ dlist' = Sorted(DOMAIN audioDir)
    /\ i' = Max(start_from, 0)
    /\ pc' = LoopPc(i', dlist')
    /\ UNCHANGED <<inputs, fs, run, fsAtStart, annotation, meta, all_instruments,
                   data, patched_data, err>>

\* lines 226-227
ReadMixed ==
    /\ pc = "read"
    /\ data' = [k \in Range(Tdlist(dlist, i, save_size)) |->
                    [n |-> audioDir[k].n, dtype |-> "int16"]]
    /\ pc' = "normalize"
    /\ UNCHANGED <<inputs, fs, run, fsAtStart, annotation, meta, all_instruments,
                   all_instruments_map, dlist, i, patched_data, err>>

\* line 229
Normalize ==
    /\ pc = "normalize"
    /\ data' = [k \in DOMAIN data |-> [data[k] EXCEPT !.dtype = "float32"]]
    /\ pc' = "split"
    /\ UNCHANGED <<inputs, fs, run, fsAtStart, annotation, meta, all_instruments,
                   all_instruments_map, dlist, i, patched_data, err>>

\* lines 232-233
Split ==
    /\ pc = "split"
    /\ \E order \in Orders(DOMAIN data) :
          LET r == SplitMusicToPatches(data, annotation, all_instruments_map, length, order)
          IN  /\ patched_data' = IF r.err = "none" THEN r ELSE patched_data
              /\ err' = r.err
              /\ pc' = IF r.err = "none" THEN "del_data" ELSE "failed"
    /\ UNCHANGED <<inputs, fs, run, fsAtStart, annotation, meta, all_instruments,
                   all_instruments_map, dlist, i, data>>

\* line 235
DelData ==
    /\ pc = "del_data"
    /\ data' = NoData
    /\ pc' = "save"
    /\ UNCHANGED <<inputs, fs, run, fsAtStart, annotation, meta, all_instruments,
                   all_instruments_map, dlist, i, patched_data, err>>

\* Mutant: savemat is called without the os.path.exists test.
SaveOpenAlways ==
    /\ pc = "save"
    /\ pc' = "savemat"
    /\ fs' = Opened(PatchesSavePath(i, i + save_size))
    /\ UNCHANGED <<inputs, run, fsAtStart, annotation, meta, all_instruments,
                   all_instruments_map, dlist, i, data, patched_data, err>>

\* lines 237-240: the existence test, and savemat creating the file
SaveOpen ==
    /\ pc = "save"
    /\ IF Exists(PatchesSavePath(i, i + save_size))
       THEN /\ pc' = "del_patched"
            /\ fs' = fs
       ELSE /\ pc' = "savemat"
            /\ fs' = Opened(PatchesSavePath(i, i + save_size))
    /\ UNCHANGED <<inputs, run, fsAtStart, annotation, meta, all_instruments,
                   all_instruments_map, dlist, i, data, patched_data, err>>

\* line 240: savemat finishing the file
SaveWrite ==
    /\ pc = "savemat"
    /\ fs' = Written(PatchesSavePath(i, i + save_size), <<patched_data.X, patched_data.y>>)
    /\ pc' = "del_patched"
    /\ UNCHANGED <<inputs, run, fsAtStart, annotation, meta, all_instruments,
                   all_instruments_map, dlist, i, data, patched_data, err>>

\* Mutant: the batch is not released (no del patched_data).
DelPatchedKeep ==
    /\ pc = "del_patched"
    /\ i' = i + save_size
    /\ pc' = LoopPc(i', dlist)
    /\ UNCHANGED <<inputs, fs, run, fsAtStart, annotation, meta, all_instruments,
                   all_instruments_map, dlist, data, patched_data, err>>

\* lines 241-243, and the loop's step
DelPatched ==
    /\ pc = "del_patched"
    /\ patched_data' = NoPatches
    /\ i' = i + save_size
    /\ pc' = LoopPc(i', dlist)
    /\ UNCHANGED <<inputs, fs, run, fsAtStart, annotation, meta, all_instruments,
                   all_instruments_map, dlist, data, err>>

\* The process is terminated (section 5: the only cancellation there is):
\* its memory is gone, out_path stays as it is.
Crash ==
    /\ pc \notin {"done", "failed", "crashed"}
    /\ pc' = "crashed"
    /\ annotation' = <<>> /\ meta' = <<>>
    /\ all_instruments' = <<>> /\ all_instruments_map' = <<>>
    /\ dlist' = <<>> /\ i' = 0
    /\ data' = NoData /\ patched_data' = NoPatches
    /\ UNCHANGED <<inputs, fs, run, fsAtStart, err>>

\* prep_data is started again with the same arguments.
Rerun ==
    /\ pc = "crashed"
    /\ run < MaxRuns
    /\ run' = run + 1
    /\ fsAtStart' = fs
    /\ pc' = "start"
    /\ UNCHANGED <<inputs, fs, annotation, meta, all_instruments, all_instruments_map,
                   dlist, i, data, patched_data, err>>

NextRun ==
    \/ ReadInputs \/ Match \/ PickleOpen \/ PickleDump \/ BuildMap
    \/ ReadMixed \/ Normalize \/ Split \/ DelData \/ SaveOpen \/ SaveWrite
    \/ DelPatched

Next == NextRun \/ Crash \/ Rerun

\* The state in which prep_data is entered for the first time.
Entry ==
    /\ pc = "start" /\ run = 1 /\ fsAtStart = fs
    /\ annotation = <<>> /\ meta = <<>>
    /\ all_instruments = <<>> /\ all_instruments_map = <<>>
    /\ dlist = <<>> /\ i = 0
    /\ data = NoData /\ patched_data = NoPatches
    /\ err = "none"

\* ----------------------------------------------------------------- datasets
TrackA == <<"a">>
TrackB == <<"b">>
TrackC == <<"c">>
S01 == <<"S", "0", "1">>
S02 == <<"S", "0", "2">>

RECURSIVE Ascending(_)
Ascending(S) ==
    IF S = {} THEN <<>>
    ELSE LET m == CHOOSE x \in S : \A y \in S : x <= y
         IN  <<m>> \o Ascending(S \ {m})

\* An ACTIVATION_CONF table with a row at each time of T: column S01 holds
\* c1[t]; every sequence of `extra` adds a further stem column (S02) with
\* that constant value.
Table(T, c1, extra) ==
    LET ts == Ascending(T)
    IN  [columns |-> <<TIME, S01>> \o [j \in DOMAIN extra |-> S02],
         rows |-> [j \in DOMAIN ts |-> <<ts[j], c1[ts[j]]>> \o extra]]

\* Row times: the start of the first window, its last second, and the
\* boundary between the first and the second window.
TimeGrid == {0, length - 1, length}
Remainders == {0, 1}
TrackLens == {q * patch_size + r : q \in 0..MaxWindows, r \in Remainders}
ConfVals == 0..MaxConf

\* Datasets for the extraction: track a varies in length, annotation rows,
\* confidences, a duplicated instrument column and instrument names; track b
\* has one window and an instrument of its own.
InitExtract ==
    /\ \E n \in TrackLens, T \in SUBSET TimeGrid, ss \in 1..2 :
       \E c1 \in [T -> ConfVals], extra \in {<<>>} \cup {<<c>> : c \in ConfVals},
          ma \in [{S01, S02} -> {<<"B">>, <<"b">>}] :
          /\ audioDir = (TrackA :> [n |-> n, stems |-> ma])
                        @@ (TrackB :> [n |-> patch_size + 1, stems |-> (S01 :> <<"a", "b">>)])
          /\ annoDir = ((TrackA \o Suffix) :> Table(T, c1, extra))
                       @@ ((TrackB \o Suffix) :> Table({0}, [t \in {0} |-> 1], <<>>))
          /\ save_size = ss
    /\ start_from = 0
    /\ fs = <<>>
    /\ Entry

\* Datasets whose Audio entries and annotation file names vary.
DirNames == {<<"a">>, <<"b">>, <<"a", "b">>, <<"a", "-", "b">>}
FileStems == {<<"a">>, <<"b">>, <<"a", "-", "b">>, <<"a", "(", "b">>, <<"'", "b">>}

InitKeys ==
    /\ \E D \in SUBSET DirNames, F \in SUBSET FileStems :
          /\ audioDir = [d \in D |-> [n |-> MaxWindows * patch_size + 1,
                                      stems |-> (S01 :> <<"a">>)]]
          /\ annoDir = [f \in {x \o Suffix : x \in F} |->
                            Table(TimeGrid, [t \in TimeGrid |-> Len(f) - SuffixLen], <<>>)]
    /\ save_size = 2
    /\ start_from = 0
    /\ fs = <<>>
    /\ Entry

\* Three tracks of two windows each, an out_path that may already hold
\* files, and the arguments of prep_data.
Tracks == {TrackA, TrackB, TrackC}
InstrumentOf(k) == IF k = TrackA THEN <<"b">> ELSE IF k = TrackB THEN <<"B">> ELSE <<"a">>
Leftover == [by |-> 0, complete |-> TRUE, body |-> <<>>]
GroupStarts(from, size) == {Max(from, 0) + j * size : j \in 0..Cardinality(Tracks)}
GroupPaths(from, size) ==
    {PatchesSavePath(s, s + size) : s \in {g \in GroupStarts(from, size) : g < Cardinality(Tracks)}}

Init ==
    /\ audioDir = [k \in Tracks |-> [n |-> MaxWindows * patch_size + 1,
                                     stems |-> (S01 :> InstrumentOf(k))]]
    /\ annoDir = [f \in {k \o Suffix : k \in Tracks} |->
                    Table(TimeGrid, [t \in TimeGrid |-> 1], <<>>)]
    /\ \E ss \in 1..2, sf \in -1..Cardinality(Tracks) :
          /\ save_size = ss
          /\ start_from = sf
          /\ \E P \in SUBSET ({AnnoPkl} \cup GroupPaths(sf, ss)) :
                fs = [q \in P |-> Leftover]
    /\ Entry

SpecExtract == InitExtract /\ [][NextRun]_vars
SpecKeys == InitKeys /\ [][NextRun]_vars
Spec == Init /\ [][Next]_vars

\* =================================================================== claims
\* The patches in memory, as <<samples, label>> pairs.
Patches == {<<patched_data.X[p], patched_data.y[p]>> : p \in DOMAIN patched_data.X}

\* The patches of the batch files that were written completely.
SavedPatches ==
    UNION {{<<fs[q].body[1][p], fs[q].body[2][p]>> : p \in DOMAIN fs[q].body[1]} :
            q \in {f \in DOMAIN fs : f # AnnoPkl /\ fs[f].complete /\ fs[f].by # 0}}

\* The positions in X of the patches cut from track k, in increasing order.
PatchesOf(k) ==
    LET From(p) == patched_data.X[p][1].track = k
    IN  SelectSeq([p \in DOMAIN patched_data.X |-> p], From)

TrackOf(patch) == patch[1][1].track
WindowOf(patch) == patch[1][1].from \div patch_size

\* Split has just returned for the group held in data.
SplitReturned == pc = "del_data"

\* The rows of a table whose time lies in the half-open window w.
WindowRows(tab, w) ==
    {r \in DOMAIN tab.rows : w * length <= tab.rows[r][1] /\ tab.rows[r][1] < (w + 1) * length}

RECURSIVE SumOver(_, _, _)
SumOver(tab, c, R) ==
    IF R = {} THEN 0
    ELSE LET r == CHOOSE x \in R : TRUE
         IN  tab.rows[r][c] + SumOver(tab, c, R \ {r})

\* The mean of column c over the rows R, as a reduced fraction (0/0 if none).
ColMean(tab, c, R) == Frac(SumOver(tab, c, R), Cardinality(R))

ColumnsNamed(tab, e) == {c \in DOMAIN tab.columns : tab.columns[c] = e}

\* C1: a track whose sample count is a positive multiple q * patch_size
\* yields exactly q patches, the last full window included.
C1_ExactMultipleKeepsLastWindow ==
    SplitReturned =>
        \A k \in DOMAIN data :
            (data[k].n > 0 /\ data[k].n % patch_size = 0)
                => Len(PatchesOf(k)) = data[k].n \div patch_size

\* C2: a track of n samples, n not a multiple of patch_size, yields exactly
\* floor(n / patch_size) patches; the i-th holds the columns
\* [i * patch_size, (i+1) * patch_size) of channel 0 and then of channel 1, and
\* no patch reaches into the trailing n mod patch_size samples.  (When no
\* track of the group yields a patch the call raises ValueError: then every
\* such track has floor(n / patch_size) = 0.)
C2_FloorPatchesDropRemainder ==
    /\ SplitReturned =>
         \A k \in DOMAIN data :
            data[k].n % patch_size # 0 =>
               LET ps == PatchesOf(k)
               IN  /\ Len(ps) = data[k].n \div patch_size
                   /\ \A j \in DOMAIN ps :
                        patched_data.X[ps[j]] =
                          <<[track |-> k, channel |-> 0,
                             from |-> (j - 1) * patch_size, to |-> j * patch_size],
                            [track |-> k, channel |-> 1,
                             from |-> (j - 1) * patch_size, to |-> j * patch_size]>>
                   /\ \A j \in DOMAIN ps :
                        patched_data.X[ps[j]][1].to <= data[k].n - (data[k].n % patch_size)
    /\ (pc = "failed" /\ err = "ValueError") =>
         \A k \in DOMAIN data :
            data[k].n % patch_size # 0 => data[k].n \div patch_size = 0

\* C2 witness: a track of 2 * patch_size + 1 samples has been cut into 2 patches.
C2_Witness ==
    /\ SplitReturned
    /\ \E k \in DOMAIN data :
          /\ data[k].n = 2 * patch_size + 1
          /\ Len(PatchesOf(k)) = 2

\* C3: the label of window w of a track is computed from exactly the
\* annotation rows with w * length <= time < (w+1) * length: for every
\* instrument with one column, the label entry is the mean of that column
\* over those rows, so a row at a window boundary counts for the later
\* window only and no row counts for two windows.
C3_HalfOpenWindowRows ==
    \A patch \in Patches :
        LET tab == annotation[TrackOf(patch)]
        IN  \A c \in DOMAIN tab.columns :
               (tab.columns[c] # TIME /\ ColumnsNamed(tab, tab.columns[c]) = {c})
                  => patch[2][all_instruments_map[tab.columns[c]]]
                        = ColMean(tab, c, WindowRows(tab, WindowOf(patch)))

\* C3 witness: a row at time exactly `length` whose confidence differs from
\* the first window's mean; both windows were cut and got different labels.
C3_Witness ==
    /\ SplitReturned
    /\ \E p1 \in Patches, p2 \in Patches :
          LET tab == annotation[TrackOf(p1)]
          IN  /\ TrackOf(p1) = TrackOf(p2)
              /\ WindowOf(p1) = 0 /\ WindowOf(p2) = 1
              /\ Len(tab.columns) = 2
              /\ \E r \in DOMAIN tab.rows : tab.rows[r][1] = length
              /\ \E r \in DOMAIN tab.rows : tab.rows[r][1] < length
              /\ p1[2] # p2[2]
              /\ ~IsNaN(p1[2][all_instruments_map[tab.columns[2]]])

\* C4: when several columns of a track carry one instrument name, the label
\* entry of that instrument is the largest of the columns' windowed means
\* (one of them, and not below any of them), whichever column comes first.
C4_DuplicateColumnsTakeMax ==
    \A patch \in Patches :
        LET tab == annotation[TrackOf(patch)]
            R == WindowRows(tab, WindowOf(patch))
        IN  \A c \in DOMAIN tab.columns :
               LET cols == ColumnsNamed(tab, tab.columns[c])
                   lab == patch[2][all_instruments_map[tab.columns[c]]]
               IN  (tab.columns[c] # TIME /\ Cardinality(cols) > 1)
                      => /\ \E d \in cols : lab = ColMean(tab, d, R)
                         /\ \A d \in cols : ~FracLess(lab, ColMean(tab, d, R))

\* C4 witness: two columns of one instrument with different means in a
\* window, the larger one in the first column in one patch's window and in
\* the second column in another's.
C4_Witness ==
    /\ SplitReturned
    /\ \E p1 \in Patches, p2 \in Patches :
          LET tab == annotation[TrackOf(p1)]
              m1(c) == ColMean(tab, c, WindowRows(tab, WindowOf(p1)))
              m2(c) == ColMean(tab, c, WindowRows(tab, WindowOf(p2)))
          IN  /\ TrackOf(p1) = TrackOf(p2)
              /\ Len(tab.columns) = 3
              /\ tab.columns[2] = tab.columns[3]
              /\ FracLess(m1(2), m1(3))
              /\ FracLess(m2(3), m2(2))
              /\ p1[2][all_instruments_map[tab.columns[2]]] = m1(3)
              /\ p2[2][all_instruments_map[tab.columns[2]]] = m2(2)

\* C5: every label vector, in memory or in a batch file, has one entry per
\* name of the vocabulary match_meta_annotation returned; that vocabulary is
\* the duplicate-free, strictly increasing list of all instrument names of
\* the metadata; entry p belongs to the p-th name: it is 0 when the track's
\* table has no column of that name and one of that name's column means
\* otherwise.
C5_LabelSchema ==
    \A patch \in Patches \cup SavedPatches :
        LET tab == annotation[TrackOf(patch)]
            R == WindowRows(tab, WindowOf(patch))
            n == Len(all_instruments)
        IN  /\ DOMAIN patch[2] = 0..(n - 1)
            /\ \A a \in 1..n, b \in 1..n :
                  a < b => StrLess(all_instruments[a], all_instruments[b])
            /\ Range(all_instruments) = UNION {Range(audioDir[k].stems) : k \in DOMAIN audioDir}
            /\ \A p \in 0..(n - 1) :
                  LET cols == ColumnsNamed(tab, all_instruments[p + 1])
                  IN  IF cols = {} THEN patch[2][p] = Zero
                      ELSE \E d \in cols : patch[2][p] = ColMean(tab, d, R)

\* C5 witness: a batch holding patches of two tracks with different
\* instruments, in a vocabulary of three names beginning with an upper-case
\* one; each track's label is non-zero at its own instrument only.
C5_Witness ==
    /\ SplitReturned
    /\ Len(all_instruments) = 3
    /\ all_instruments[1] = <<"B">>
    /\ \E p1 \in Patches, p2 \in Patches :
          /\ TrackOf(p1) = TrackA /\ TrackOf(p2) = TrackB
          /\ p1[2][1] = Zero /\ p1[2][0] # Zero /\ p1[2][2] # Zero
          /\ p2[2][1] # Zero /\ p2[2][0] = Zero /\ p2[2][2] = Zero

\* C8: no patch whose window holds no annotation row gets into a batch: no
\* label, in memory or in a batch file, has an undefined (NaN) entry.
C8_NoUndefinedLabel ==
    \A patch \in Patches \cup SavedPatches :
        \A p \in DOMAIN patch[2] : ~IsNaN(patch[2][p])

\* The metadata's track keys are not the annotation's track keys.
KeySetsDiffer == DOMAIN audioDir # {AnnotationKey(f) : f \in DOMAIN annoDir}

\* C9: when the two key sets differ, the run never gets past
\* match_meta_annotation: it ends there with an exception, no vocabulary is
\* returned and out_path receives neither the annotation artifact nor a batch.
C9_KeyMismatchIsFatal ==
    KeySetsDiffer =>
        /\ pc \in {"start", "match", "failed"}
        /\ pc = "failed" => err \in {"AssertionError", "KeyError"}
        /\ Len(all_instruments) = 0
        /\ DOMAIN fs = {}

\* C9 witness: key sets of the same size that differ; the run has failed.
C9_Witness ==
    /\ KeySetsDiffer
    /\ Cardinality(DOMAIN audioDir) = Cardinality({AnnotationKey(f) : f \in DOMAIN annoDir})
    /\ DOMAIN audioDir # {}
    /\ pc = "failed"
    /\ err = "KeyError"

\* The tracks of the group the loop is at.
GroupTracks == Range(Tdlist(dlist, i, save_size))

\* C6: a run that has ended, whatever interruptions and restarts came before
\* it, leaves one complete batch file per group [k, k+b), [k+b, k+2b), ... of
\* the sorted track list, holding the patches of that group's tracks.
C6_EveryGroupFileComplete ==
    pc = "done" =>
        \A s \in {g \in GroupStarts(start_from, save_size) : g < Len(dlist)} :
            LET q == PatchesSavePath(s, s + save_size)
            IN  /\ q \in DOMAIN fs
                /\ fs[q].complete
                /\ fs[q].by # 0 =>
                      {x[1].track : x \in Range(fs[q].body[1])} = Range(Tdlist(dlist, s, save_size))

\* C7: a file that exists in out_path when a run starts has the same content
\* at every later point of that run; a batch file or annotation artifact
\* that did not exist has been written by this run once its step is over.
C7_ExistingFilesUntouched ==
    /\ \A q \in DOMAIN fsAtStart : q \in DOMAIN fs /\ fs[q] = fsAtStart[q]
    /\ pc = "del_patched" =>
          LET q == PatchesSavePath(i, i + save_size)
          IN  /\ q \in DOMAIN fs
              /\ q \notin DOMAIN fsAtStart =>
                    fs[q] = [by |-> run, complete |-> TRUE,
                             body |-> <<patched_data.X, patched_data.y>>]
    /\ pc \in {"map", "read", "done"} =>
          /\ AnnoPkl \in DOMAIN fs
          /\ AnnoPkl \notin DOMAIN fsAtStart =>
                fs[AnnoPkl] = [by |-> run, complete |-> TRUE, body |-> <<annotation>>]

\* C7 witness: the persist step of a group has passed over a batch file that
\* was there before the run, while the annotation artifact was written.
C7_Witness ==
    /\ pc = "del_patched"
    /\ PatchesSavePath(i, i + save_size) \in DOMAIN fsAtStart
    /\ fs[PatchesSavePath(i, i + save_size)] = Leftover
    /\ AnnoPkl \notin DOMAIN fsAtStart

ResidentTracks == DOMAIN data \cup {TrackOf(patch) : patch \in Patches}

====
